---- MODULE Spec2Model ----
(***************************************************************************)
(* The statement-execution engine of the field-mapping DSL                 *)
(* (src/mapping/mod.rs): the statements Assignment, Deletion, OnlyFields,  *)
(* IfStatement, Noop, MergeFn and LogFn, the recursive merge_maps, and the *)
(* fail-fast executor Mapping::execute.                                    *)
(*                                                                         *)
(* The event store (LogEvent: get_mut / insert / remove / keys), the paths *)
(* (LookupBuf) and the query expressions (query::Function) live in other   *)
(* modules of the crate; they are modelled from their contract.            *)
(***************************************************************************)
EXTENDS Integers, Sequences, FiniteSets, TLC

VARIABLES
    event,      \* the record being transformed: the root map, key -> Value
    mapping,    \* Mapping.assignments: the statements, fixed at construction
    i,          \* execute's loop index, 0-based as in the source
    pc,         \* "running" inside execute's loop, "done" once it returned
    result,     \* what execute returned: "" for Ok(()), else the Err text
    applied,    \* history: the indices whose apply was called, in call order
    branches,   \* history: per IfStatement applied, the branch it called
    event0,     \* history: the record handed to execute
    sink        \* the diagnostic sink: the lines LogFn emitted

vars == <<event, mapping, i, pc, result, applied, branches, event0, sink>>

----------------------------------------------------------------------------
(* Bounds of the model. *)

\* Longest Mapping (number of top-level statements).
MaxLen == 3
\* Number of fields inserted to build the record handed to execute.
MaxFields == 2
\* Number of threads executing one Mapping concurrently.
MaxThreads == 2

----------------------------------------------------------------------------
(* Value: the tagged union. Only Boolean and Map are inspected by the      *)
(* engine; Bytes stands for every opaque scalar.                           *)

NoFields == <<>>

Bytes(s) == [t |-> "Bytes", s |-> s, m |-> NoFields]

Boolean(b) == [t |-> "Boolean", s |-> IF b THEN "true" ELSE "false", m |-> NoFields]

Map(f) == [t |-> "Map", s |-> "", m |-> f]

IsMap(v) == v.t = "Map"

IsBoolean(v) == v.t = "Boolean"

\* BTreeMap iterates its keys in ascending order; this is that order.
KeyOrder == <<"a", "b", "c">>

FieldNames == {KeyOrder[n] : n \in 1..Len(KeyOrder)}

\* The keys of map m in BTreeMap iteration order.
SortedKeys(m) == SelectSeq(KeyOrder, LAMBDA k : k \in DOMAIN m)

\* BTreeMap::insert: add or overwrite one key.
Put(m, k, v) == [x \in (DOMAIN m) \cup {k} |-> IF x = k THEN v ELSE m[x]]

\* BTreeMap::remove: drop one key.
Drop(m, k) == [x \in (DOMAIN m) \ {k} |-> m[x]]

----------------------------------------------------------------------------
(* Paths (LookupBuf): a non-empty sequence of field names.                 *)

\* p is a proper prefix of k.
IsStrictPrefix(p, k) == Len(p) < Len(k) /\ SubSeq(k, 1, Len(p)) = p

\* The covering relation of field projection: k equals p or descends from it.
Covers(p, k) == p = k \/ IsStrictPrefix(p, k)

\* Display of a LookupBuf: the segments joined by dots.
RECURSIVE PathToString(_)
PathToString(p) ==
    IF Len(p) = 1 THEN Head(p) ELSE Head(p) \o "." \o PathToString(Tail(p))

----------------------------------------------------------------------------
(* The event store (LogEvent), over the root map m.                        *)

\* Whether a node exists at path p.
RECURSIVE Has(_, _)
Has(m, p) ==
    /\ Head(p) \in DOMAIN m
    /\ \/ Len(p) = 1
       \/ IsMap(m[Head(p)]) /\ Has(m[Head(p)].m, Tail(p))

\* get / get_mut: the value at an existing path p.
RECURSIVE Get(_, _)
Get(m, p) == IF Len(p) = 1 THEN m[Head(p)] ELSE Get(m[Head(p)].m, Tail(p))

\* insert: write v at p, creating missing intermediate maps, overwriting.
RECURSIVE Insert(_, _, _)
Insert(m, p, v) ==
    LET k == Head(p)
    IN  IF Len(p) = 1 THEN Put(m, k, v)
        ELSE LET child == IF k \in DOMAIN m /\ IsMap(m[k]) THEN m[k].m ELSE NoFields
             IN  Put(m, k, Map(Insert(child, Tail(p), v)))

\* remove(path, prune): drop the node at p when present; with prune, also
\* the ancestors the removal left empty.
RECURSIVE Remove(_, _, _)
Remove(m, p, prune) ==
    LET k == Head(p)
    IN  IF ~Has(m, p) THEN m
        ELSE IF Len(p) = 1 THEN Drop(m, k)
        ELSE LET child == Remove(m[k].m, Tail(p), prune)
             IN  IF prune /\ DOMAIN child = {} THEN Drop(m, k)
                 ELSE Put(m, k, Map(child))

\* keys(true): every path of the record, leaves and intermediate nodes, in
\* iteration order.
RECURSIVE KeysFrom(_, _, _)
KeysFrom(m, ks, n) ==
    IF n > Len(ks) THEN <<>>
    ELSE LET k == ks[n]
             below == IF IsMap(m[k])
                      THEN LET sub == KeysFrom(m[k].m, SortedKeys(m[k].m), 1)
                           IN  [j \in 1..Len(sub) |-> <<k>> \o sub[j]]
                      ELSE <<>>
         IN  <<<<k>>>> \o below \o KeysFrom(m, ks, n + 1)

AllKeys(m) == KeysFrom(m, SortedKeys(m), 1)

\* The paths of m as a set.
PathSet(m) == {AllKeys(m)[n] : n \in 1..Len(AllKeys(m))}

\* The leaf paths of m: the paths holding a scalar (not a map).
LeafPaths(m) == {p \in PathSet(m) : ~IsMap(Get(m, p))}

----------------------------------------------------------------------------
(* Expressions (query::Function): execute(record) yields Err(text), or a    *)
(* QueryValue that is a concrete Value or some non-materializable variant. *)

Literal(v) == [k |-> "Literal", p |-> <<>>, v |-> <<v>>]

QueryPath(p) == [k |-> "Path", p |-> p, v |-> <<>>]

\* Arithmetic::new(Path(p), Literal(v), Operator::Equal)
Equal(p, v) == [k |-> "Equal", p |-> p, v |-> <<v>>]

\* An expression whose result is a QueryValue other than Value.
RegexLiteral == [k |-> "Regex", p |-> <<>>, v |-> <<>>]

QueryOk(v) == [err |-> "", qv |-> "Value", v |-> v]

QueryOther == [err |-> "", qv |-> "Regex", v |-> Bytes("")]

QueryErr(e) == [err |-> e, qv |-> "", v |-> Bytes("")]

NotFound(p) == "path ." \o PathToString(p) \o " not found in event"

Execute(q, m) ==
    CASE q.k = "Literal" -> QueryOk(q.v[1])
      [] q.k = "Path" ->
            IF Has(m, q.p) THEN QueryOk(Get(m, q.p)) ELSE QueryErr(NotFound(q.p))
      [] q.k = "Equal" ->
            IF Has(m, q.p) THEN QueryOk(Boolean(Get(m, q.p) = q.v[1]))
            ELSE QueryErr(NotFound(q.p))
      [] OTHER -> QueryOther

----------------------------------------------------------------------------
(* Statements (the implementations of trait Function).                     *)

Statement(kind, path, paths, q, deep, sub, level) ==
    [kind |-> kind, path |-> path, paths |-> paths, q |-> q, deep |-> deep,
     sub |-> sub, level |-> level]

\* Assignment::new(path, function)
Assignment(path, function) ==
    Statement("Assignment", path, <<>>, <<function>>, <<>>, <<>>, <<>>)

\* Deletion::new(paths)
Deletion(paths) == Statement("Deletion", <<>>, paths, <<>>, <<>>, <<>>, <<>>)

\* OnlyFields::new(paths)
OnlyFields(paths) == Statement("OnlyFields", <<>>, paths, <<>>, <<>>, <<>>, <<>>)

\* IfStatement::new(query, true_statement, false_statement)
IfStatement(query, true_statement, false_statement) ==
    Statement("IfStatement", <<>>, <<>>, <<query>>, <<>>,
              <<true_statement, false_statement>>, <<>>)

Noop == Statement("Noop", <<>>, <<>>, <<>>, <<>>, <<>>, <<>>)

\* MergeFn::new(to_path, from, deep); deep is <<>> for None, <<q>> for Some(q)
MergeFn(to_path, from, deep) ==
    Statement("MergeFn", to_path, <<>>, <<from>>, deep, <<>>, <<>>)

\* LogFn::new(msg, level); level is <<>> for None, <<l>> for Some(l)
LogFn(msg, level) == Statement("LogFn", <<>>, <<>>, <<msg>>, <<>>, <<>>, level)

\* What apply did: the record it left, its Err text ("" for Ok(())), the
\* branches its conditionals called, and the lines it emitted.
Applied(ev, err, br, out) == [ev |-> ev, err |-> err, br |-> br, out |-> out]

\* A variant of AssignmentApply that writes the field into a fresh record.
AssignmentApplyFresh(st, m) ==
    LET r == Execute(st.q[1], m)
    IN  IF r.err # "" THEN Applied(m, r.err, <<>>, <<>>)
        ELSE IF r.qv = "Value"
             THEN Applied(Insert(NoFields, st.path, r.v), "", <<>>, <<>>)
        ELSE Applied(m, "assignment must be from a value", <<>>, <<>>)

\* A variant of AssignmentApply that clears the destination before it
\* rejects a result that is not a Value.
AssignmentApplyClearing(st, m) ==
    LET r == Execute(st.q[1], m)
    IN  IF r.err # "" THEN Applied(m, r.err, <<>>, <<>>)
        ELSE IF r.qv = "Value" THEN Applied(Insert(m, st.path, r.v), "", <<>>, <<>>)
        ELSE Applied(Remove(m, st.path, FALSE), "assignment must be from a value",
                     <<>>, <<>>)

AssignmentApply(st, m) ==
    LET r == Execute(st.q[1], m)
    IN  IF r.err # "" THEN Applied(m, r.err, <<>>, <<>>)
        ELSE IF r.qv = "Value" THEN Applied(Insert(m, st.path, r.v), "", <<>>, <<>>)
        ELSE Applied(m, "assignment must be from a value", <<>>, <<>>)

RECURSIVE DeletionFrom(_, _, _)

\* A variant of DeletionFrom that prunes the ancestors a removal empties.
RECURSIVE DeletionFromPrune(_, _, _)
DeletionFromPrune(paths, m, n) ==
    IF n > Len(paths) THEN m
    ELSE DeletionFromPrune(paths, Remove(m, paths[n], TRUE), n + 1)

\* The loop of Deletion::apply from its n-th path on.
DeletionFrom(paths, m, n) ==
    IF n > Len(paths) THEN m
    ELSE DeletionFrom(paths, Remove(m, paths[n], FALSE), n + 1)

DeletionApply(st, m) == Applied(DeletionFrom(st.paths, m, 1), "", <<>>, <<>>)

\* The filter of OnlyFields::apply: the keys equal to none of the paths.
KeysToRemove(paths, m) ==
    SelectSeq(AllKeys(m), LAMBDA k : ~(\E n \in 1..Len(paths) : k = paths[n]))

RECURSIVE RemoveKeysFrom(_, _, _)

\* A variant of RemoveKeysFrom that keeps the ancestors a removal empties.
RECURSIVE RemoveKeysFromNoPrune(_, _, _)
RemoveKeysFromNoPrune(keys, m, n) ==
    IF n > Len(keys) THEN m
    ELSE RemoveKeysFromNoPrune(keys, Remove(m, keys[n], FALSE), n + 1)

\* The removal loop of OnlyFields::apply from its n-th key on.
RemoveKeysFrom(keys, m, n) ==
    IF n > Len(keys) THEN m
    ELSE RemoveKeysFrom(keys, Remove(m, keys[n], TRUE), n + 1)

OnlyFieldsApply(st, m) ==
    Applied(RemoveKeysFrom(KeysToRemove(st.paths, m), m, 1), "", <<>>, <<>>)

NoopApply(st, m) == Applied(m, "", <<>>, <<>>)

RECURSIVE MergeMapsFrom(_, _, _, _)

\* A variant of MergeMapsFrom whose recursive call merges the children
\* shallowly.
RECURSIVE MergeMapsOneLevel(_, _, _, _)
MergeMapsOneLevel(map1, map2, deep, n) ==
    LET keys == SortedKeys(map2)
    IN  IF n > Len(keys) THEN map1
        ELSE LET key2 == keys[n]
                 value2 == map2[key2]
                 merged ==
                    IF deep /\ key2 \in DOMAIN map1 /\ IsMap(map1[key2]) /\ IsMap(value2)
                    THEN Put(map1, key2,
                             Map(MergeMapsOneLevel(map1[key2].m, value2.m, FALSE, 1)))
                    ELSE Put(map1, key2, value2)
             IN  MergeMapsOneLevel(merged, map2, deep, n + 1)

\* merge_maps(map1, map2, deep), from the n-th key of map2 on.
MergeMapsFrom(map1, map2, deep, n) ==
    LET keys == SortedKeys(map2)
    IN  IF n > Len(keys) THEN map1
        ELSE LET key2 == keys[n]
                 value2 == map2[key2]
                 merged ==
                    IF deep /\ key2 \in DOMAIN map1 /\ IsMap(map1[key2]) /\ IsMap(value2)
                    THEN Put(map1, key2,
                             Map(MergeMapsFrom(map1[key2].m, value2.m, deep, 1)))
                    ELSE Put(map1, key2, value2)
             IN  MergeMapsFrom(merged, map2, deep, n + 1)

\* A variant of merge_maps that takes deep the other way round.
MergeMapsInverted(map1, map2, deep) == MergeMapsFrom(map1, map2, ~deep, 1)

\* A variant of merge_maps that recurses whatever deep says.
MergeMapsAlwaysDeep(map1, map2, deep) == MergeMapsFrom(map1, map2, TRUE, 1)

merge_maps(map1, map2, deep) == MergeMapsFrom(map1, map2, deep, 1)

\* The deep parameter of MergeFn::apply: its Err text, or "" and the flag.
MergeDeep(st, m) ==
    IF st.deep = <<>> THEN [err |-> "", deep |-> FALSE]
    ELSE LET r == Execute(st.deep[1], m)
         IN  IF r.err # "" THEN [err |-> r.err, deep |-> FALSE]
             ELSE IF r.qv = "Value" /\ IsBoolean(r.v)
                  THEN [err |-> "", deep |-> r.v = Boolean(TRUE)]
             ELSE [err |-> "deep parameter passed to merge is a non-boolean value",
                   deep |-> FALSE]

\* A variant of MergeFnApply that resolves the destination before it
\* checks the deep parameter.
MergeFnApplyToFirst(st, m) ==
    LET from_value == Execute(st.q[1], m)
        d == MergeDeep(st, m)
    IN  IF from_value.err # "" THEN Applied(m, from_value.err, <<>>, <<>>)
        ELSE IF ~Has(m, st.path)
             THEN Applied(m, "parameter " \o PathToString(st.path)
                               \o " passed to merge is not found", <<>>, <<>>)
        ELSE IF d.err # "" THEN Applied(m, d.err, <<>>, <<>>)
        ELSE IF IsMap(Get(m, st.path)) /\ from_value.qv = "Value" /\ IsMap(from_value.v)
             THEN Applied(Insert(m, st.path,
                                 Map(merge_maps(Get(m, st.path).m, from_value.v.m, d.deep))),
                          "", <<>>, <<>>)
        ELSE Applied(m, "parameters passed to merge are non-map values", <<>>, <<>>)

\* A variant of MergeFnApply that moves the source field into the
\* destination: it removes the field `from` was read from.
MergeFnApplyMovingSource(st, m) ==
    LET from_value == Execute(st.q[1], m)
        d == MergeDeep(st, m)
    IN  IF from_value.err # "" THEN Applied(m, from_value.err, <<>>, <<>>)
        ELSE IF d.err # "" THEN Applied(m, d.err, <<>>, <<>>)
        ELSE IF ~Has(m, st.path)
             THEN Applied(m, "parameter " \o PathToString(st.path)
                               \o " passed to merge is not found", <<>>, <<>>)
        ELSE IF IsMap(Get(m, st.path)) /\ from_value.qv = "Value" /\ IsMap(from_value.v)
             THEN LET merged ==
                         Insert(m, st.path,
                                Map(merge_maps(Get(m, st.path).m, from_value.v.m, d.deep)))
                  IN  Applied(IF st.q[1].k = "Path" /\ ~Covers(st.q[1].p, st.path)
                              THEN Remove(merged, st.q[1].p, FALSE) ELSE merged,
                              "", <<>>, <<>>)
        ELSE Applied(m, "parameters passed to merge are non-map values", <<>>, <<>>)

MergeFnApply(st, m) ==
    LET from_value == Execute(st.q[1], m)
        d == MergeDeep(st, m)
    IN  IF from_value.err # "" THEN Applied(m, from_value.err, <<>>, <<>>)
        ELSE IF d.err # "" THEN Applied(m, d.err, <<>>, <<>>)
        ELSE IF ~Has(m, st.path)
             THEN Applied(m, "parameter " \o PathToString(st.path)
                               \o " passed to merge is not found", <<>>, <<>>)
        ELSE IF IsMap(Get(m, st.path)) /\ from_value.qv = "Value" /\ IsMap(from_value.v)
             THEN Applied(Insert(m, st.path,
                                 Map(merge_maps(Get(m, st.path).m, from_value.v.m, d.deep))),
                          "", <<>>, <<>>)
        ELSE Applied(m, "parameters passed to merge are non-map values", <<>>, <<>>)

\* Value::clone_into_bytes followed by from_utf8_lossy: the text logged.
LogText(v) == IF IsMap(v) THEN "{..}" ELSE v.s

LogFnApply(st, m) ==
    LET r == Execute(st.q[1], m)
        level == IF st.level = <<>> THEN "info" ELSE st.level[1]
    IN  IF r.err # "" THEN Applied(m, r.err, <<>>, <<>>)
        ELSE IF r.qv # "Value" THEN Applied(m, "Can only log Value parameters", <<>>, <<>>)
        ELSE Applied(m, "", <<>>, <<[level |-> level, text |-> LogText(r.v)]>>)

RECURSIVE Apply(_, _)

\* A variant of IfStatementApply that takes a non-boolean for false.
IfStatementApplyFalsy(st, m) ==
    LET r == Execute(st.q[1], m)
    IN  IF r.err # "" THEN Applied(m, r.err, <<>>, <<>>)
        ELSE IF r.qv = "Value" /\ r.v = Boolean(TRUE)
             THEN LET b == Apply(st.sub[1], m)
                  IN  Applied(b.ev, b.err, <<"true_statement">> \o b.br, b.out)
        ELSE LET b == Apply(st.sub[2], m)
             IN  Applied(b.ev, b.err, <<"false_statement">> \o b.br, b.out)

\* A variant of IfStatementApply with the two branches exchanged.
IfStatementApplySwapped(st, m) ==
    LET r == Execute(st.q[1], m)
    IN  IF r.err # "" THEN Applied(m, r.err, <<>>, <<>>)
        ELSE IF r.qv = "Value" /\ r.v = Boolean(TRUE)
             THEN LET b == Apply(st.sub[2], m)
                  IN  Applied(b.ev, b.err, <<"false_statement">> \o b.br, b.out)
        ELSE IF r.qv = "Value" /\ r.v = Boolean(FALSE)
             THEN LET b == Apply(st.sub[1], m)
                  IN  Applied(b.ev, b.err, <<"true_statement">> \o b.br, b.out)
        ELSE Applied(m, "query returned non-boolean value", <<>>, <<>>)

IfStatementApply(st, m) ==
    LET r == Execute(st.q[1], m)
    IN  IF r.err # "" THEN Applied(m, r.err, <<>>, <<>>)
        ELSE IF r.qv = "Value" /\ r.v = Boolean(TRUE)
             THEN LET b == Apply(st.sub[1], m)
                  IN  Applied(b.ev, b.err, <<"true_statement">> \o b.br, b.out)
        ELSE IF r.qv = "Value" /\ r.v = Boolean(FALSE)
             THEN LET b == Apply(st.sub[2], m)
                  IN  Applied(b.ev, b.err, <<"false_statement">> \o b.br, b.out)
        ELSE Applied(m, "query returned non-boolean value", <<>>, <<>>)

\* Dynamic dispatch of Function::apply.
Apply(st, m) ==
    CASE st.kind = "Assignment" -> AssignmentApply(st, m)
      [] st.kind = "Deletion" -> DeletionApply(st, m)
      [] st.kind = "OnlyFields" -> OnlyFieldsApply(st, m)
      [] st.kind = "IfStatement" -> IfStatementApply(st, m)
      [] st.kind = "MergeFn" -> MergeFnApply(st, m)
      [] st.kind = "LogFn" -> LogFnApply(st, m)
      [] OTHER -> NoopApply(st, m)

----------------------------------------------------------------------------
(* The inputs: the records handed to execute and the Mappings built.       *)

\* The paths of the fields a record is built from.
FieldPaths ==
    {<<"a">>, <<"b">>, <<"a", "a">>, <<"a", "b">>, <<"b", "a">>,
     <<"a", "a", "a">>, <<"a", "a", "b">>, <<"b", "a", "b">>,
     <<"a", "a", "a", "a">>, <<"a", "a", "a", "b">>}

\* The values of those fields.
FieldValues == {Bytes("x"), Bytes("y"), Boolean(TRUE), Map(NoFields)}

\* The records built by at most n inserts into the empty record.
RECURSIVE EventsOf(_)
EventsOf(n) ==
    IF n = 0 THEN {NoFields}
    ELSE LET fewer == EventsOf(n - 1)
         IN  fewer \cup {Insert(m, p, v) : m \in fewer, p \in FieldPaths, v \in FieldValues}

Events == EventsOf(MaxFields)

\* A source map for merge: maps nested two levels deep under key a, and a
\* key c that no record holds.
SourceMap ==
    Map(("a" :> Map(("a" :> Map(("b" :> Bytes("z")))) @@ ("b" :> Bytes("z"))))
          @@ ("c" :> Bytes("z")))

Queries ==
    {Literal(Bytes("z")), Literal(SourceMap), Literal(Boolean(TRUE)),
     Literal(Boolean(FALSE)), QueryPath(<<"b">>), Equal(<<"b">>, Bytes("x")),
     RegexLiteral}

Assignments ==
    {Assignment(p, q) : p \in {<<"a">>, <<"b">>, <<"a", "b">>},
                        q \in {Literal(Bytes("z")), Literal(SourceMap),
                               QueryPath(<<"b">>), RegexLiteral}}

Deletions ==
    {Deletion(ps) : ps \in {<<<<"a">>>>, <<<<"b">>>>, <<<<"a", "b">>>>,
                            <<<<"a", "a", "a">>>>, <<<<"a", "a">>, <<"b">>>>,
                            <<<<"a", "b">>, <<"a">>>>}}

Projections ==
    {OnlyFields(ps) : ps \in {<<<<"a">>>>, <<<<"a", "b">>>>,
                              <<<<"a", "a", "a">>, <<"b">>>>, <<>>}}

\* A statement that always fails and one that always writes.
FailingAssign == Assignment(<<"a">>, RegexLiteral)
WritingAssign == Assignment(<<"a", "b">>, Literal(Bytes("z")))

Conditionals ==
    {IfStatement(q, WritingAssign, Deletion(<<<<"b">>>>)) : q \in Queries}
      \cup {IfStatement(q, FailingAssign, Noop) : q \in Queries}
      \cup {IfStatement(q, IfStatement(Equal(<<"b">>, Bytes("x")), Noop, FailingAssign),
                        WritingAssign) :
              q \in {Literal(Boolean(TRUE)), Literal(Boolean(FALSE))}}

Merges ==
    {MergeFn(to, from, deep) :
        to \in {<<"a">>, <<"a", "a">>},
        from \in {QueryPath(<<"b">>), QueryPath(<<"a">>), QueryPath(<<"a", "a">>),
                  Literal(SourceMap), Literal(Bytes("z")), RegexLiteral},
        deep \in {<<>>, <<Literal(Boolean(TRUE))>>, <<Literal(Boolean(FALSE))>>,
                  <<Literal(Bytes("z"))>>, <<RegexLiteral>>, <<QueryPath(<<"b">>)>>}}

Logs ==
    {LogFn(msg, level) : msg \in {Literal(Bytes("z")), QueryPath(<<"b">>), RegexLiteral},
                         level \in {<<>>, <<"warn">>}}

Statements ==
    Assignments \cup Deletions \cup Projections \cup Conditionals \cup {Noop}
      \cup Merges \cup Logs

\* The statements the longer Mappings are made of: one of each kind, and
\* statements that fail.
CoreStatements ==
    {WritingAssign, FailingAssign, Deletion(<<<<"b">>>>), OnlyFields(<<<<"a">>>>),
     IfStatement(Equal(<<"b">>, Bytes("x")), WritingAssign, FailingAssign), Noop,
     MergeFn(<<"a">>, Literal(SourceMap), <<>>), LogFn(QueryPath(<<"b">>), <<>>)}

\* The records the longer Mappings run on.
CoreEvents ==
    {NoFields, ("b" :> Bytes("x")), ("a" :> Map(("a" :> Bytes("x")))) @@ ("b" :> Bytes("y"))}

RECURSIVE SeqsUpTo(_, _)
SeqsUpTo(S, n) ==
    IF n = 0 THEN {<<>>}
    ELSE LET shorter == SeqsUpTo(S, n - 1)
         IN  shorter \cup {Append(q, x) : q \in shorter, x \in S}

----------------------------------------------------------------------------
(* Mapping::execute as a state machine: one step per statement applied.    *)

Start(ev, stmts) ==
    /\ event = ev
    /\ event0 = ev
    /\ mapping = stmts
    /\ i = 0
    /\ pc = "running"
    /\ result = ""
    /\ applied = <<>>
    /\ branches = <<>>
    /\ sink = <<>>

Init ==
    \/ \E ev \in Events, st \in Statements : Start(ev, <<st>>)
    \/ \E ev \in CoreEvents, stmts \in SeqsUpTo(CoreStatements, MaxLen) : Start(ev, stmts)

\* A variant of ErrorText that counts the statements from 1.
ErrorTextOneBased(n, err) ==
    "failed to apply mapping " \o ToString(n + 1) \o ": " \o err

\* format!("failed to apply mapping {}: {}", i, err)
ErrorText(n, err) == "failed to apply mapping " \o ToString(n) \o ": " \o err

\* execute's loop is at a statement of the given kind.
AtStatement(kind) ==
    /\ pc = "running"
    /\ i < Len(mapping)
    /\ mapping[i + 1].kind = kind

\* A variant of LoopBody that restores the record when a statement fails.
LoopBodyRollback(r) ==
    /\ event' = IF r.err # "" THEN event0 ELSE r.ev
    /\ applied' = Append(applied, i)
    /\ branches' = branches \o r.br
    /\ sink' = sink \o r.out
    /\ IF r.err # ""
       THEN pc' = "done" /\ result' = ErrorText(i, r.err) /\ i' = i
       ELSE pc' = pc /\ result' = result /\ i' = i + 1
    /\ UNCHANGED <<mapping, event0>>

\* The body of execute's loop, given what assignment.apply(event) did.
LoopBody(r) ==
    /\ event' = r.ev
    /\ applied' = Append(applied, i)
    /\ branches' = branches \o r.br
    /\ sink' = sink \o r.out
    /\ IF r.err # ""
       THEN pc' = "done" /\ result' = ErrorText(i, r.err) /\ i' = i
       ELSE pc' = pc /\ result' = result /\ i' = i + 1
    /\ UNCHANGED <<mapping, event0>>

ExecAssignment ==
    /\ AtStatement("Assignment")
    /\ LoopBody(AssignmentApply(mapping[i + 1], event))

ExecDeletion ==
    /\ AtStatement("Deletion")
    /\ LoopBody(DeletionApply(mapping[i + 1], event))

ExecOnlyFields ==
    /\ AtStatement("OnlyFields")
    /\ LoopBody(OnlyFieldsApply(mapping[i + 1], event))

ExecIfStatement ==
    /\ AtStatement("IfStatement")
    /\ LoopBody(IfStatementApply(mapping[i + 1], event))

ExecNoop ==
    /\ AtStatement("Noop")
    /\ LoopBody(NoopApply(mapping[i + 1], event))

ExecMergeFn ==
    /\ AtStatement("MergeFn")
    /\ LoopBody(MergeFnApply(mapping[i + 1], event))

ExecLogFn ==
    /\ AtStatement("LogFn")
    /\ LoopBody(LogFnApply(mapping[i + 1], event))

\* The loop is over: execute returns Ok(()).
ReturnOk ==
    /\ pc = "running"
    /\ i = Len(mapping)
    /\ pc' = "done"
    /\ result' = ""
    /\ UNCHANGED <<event, mapping, i, applied, branches, event0, sink>>

Next ==
    \/ ExecAssignment
    \/ ExecDeletion
    \/ ExecOnlyFields
    \/ ExecIfStatement
    \/ ExecNoop
    \/ ExecMergeFn
    \/ ExecLogFn
    \/ ReturnOk

Spec == Init /\ [][Next]_vars

----------------------------------------------------------------------------
(* One Mapping executed by several threads, each on a record of its own    *)
(* (execute takes &self and &mut Event; Function is Send). Here event, i,  *)
(* pc, result, applied, branches and event0 hold one value per thread;     *)
(* mapping is the one shared Mapping and sink the process-wide sink. A     *)
(* step is one thread applying its current statement to its own record.    *)

Threads == 1..MaxThreads

\* The Mappings shared between threads.
SharedMappings == SeqsUpTo(CoreStatements, MaxLen - 1)

ConcurrentInit ==
    \E stmts \in SharedMappings, evs \in [Threads -> CoreEvents] :
        /\ mapping = stmts
        /\ event = evs
        /\ event0 = evs
        /\ i = [t \in Threads |-> 0]
        /\ pc = [t \in Threads |-> "running"]
        /\ result = [t \in Threads |-> ""]
        /\ applied = [t \in Threads |-> <<>>]
        /\ branches = [t \in Threads |-> <<>>]
        /\ sink = <<>>

\* A variant of ThreadLoopBody that keeps the loop index in the Mapping,
\* one index for all the executions.
ThreadLoopBodySharedIndex(t, r) ==
    /\ event' = [event EXCEPT ![t] = r.ev]
    /\ applied' = [applied EXCEPT ![t] = Append(@, i[t])]
    /\ branches' = [branches EXCEPT ![t] = @ \o r.br]
    /\ sink' = sink \o r.out
    /\ IF r.err # ""
       THEN /\ pc' = [pc EXCEPT ![t] = "done"]
            /\ result' = [result EXCEPT ![t] = ErrorText(i[t], r.err)]
            /\ i' = i
       ELSE /\ pc' = pc
            /\ result' = result
            /\ i' = [u \in Threads |-> i[t] + 1]
    /\ UNCHANGED <<mapping, event0>>

\* The body of execute's loop in thread t, given what apply did to t's
\* record: only t's record, index and result change.
ThreadLoopBody(t, r) ==
    /\ event' = [event EXCEPT ![t] = r.ev]
    /\ applied' = [applied EXCEPT ![t] = Append(@, i[t])]
    /\ branches' = [branches EXCEPT ![t] = @ \o r.br]
    /\ sink' = sink \o r.out
    /\ IF r.err # ""
       THEN /\ pc' = [pc EXCEPT ![t] = "done"]
            /\ result' = [result EXCEPT ![t] = ErrorText(i[t], r.err)]
            /\ i' = i
       ELSE /\ pc' = pc
            /\ result' = result
            /\ i' = [i EXCEPT ![t] = @ + 1]
    /\ UNCHANGED <<mapping, event0>>

\* Thread t applies the statement its loop is at.
ThreadApply(t) ==
    /\ pc[t] = "running"
    /\ i[t] < Len(mapping)
    /\ ThreadLoopBody(t, Apply(mapping[i[t] + 1], event[t]))

\* Thread t's loop is over: its execute returns Ok(()).
ThreadReturnOk(t) ==
    /\ pc[t] = "running"
    /\ i[t] = Len(mapping)
    /\ pc' = [pc EXCEPT ![t] = "done"]
    /\ result' = [result EXCEPT ![t] = ""]
    /\ UNCHANGED <<event, mapping, i, applied, branches, event0, sink>>

ConcurrentNext == \E t \in Threads : ThreadApply(t) \/ ThreadReturnOk(t)

ConcurrentSpec == ConcurrentInit /\ [][ConcurrentNext]_vars

----------------------------------------------------------------------------
(* Reference definitions used to state the properties.                     *)

\* The record after the first n statements of stmts were applied to ev.
RECURSIVE RunPrefix(_, _, _)
RunPrefix(stmts, ev, n) ==
    IF n = 0 THEN ev ELSE Apply(stmts[n], RunPrefix(stmts, ev, n - 1)).ev

\* The Err text of statement n (0-based) of stmts applied after its
\* predecessors, "" when it succeeds.
ErrAt(stmts, ev, n) == Apply(stmts[n + 1], RunPrefix(stmts, ev, n)).err

\* The 0-based indices of the statements of stmts that fail when reached.
Failing(stmts, ev) == {n \in 0..(Len(stmts) - 1) : ErrAt(stmts, ev, n) # ""}

\* The least element of a non-empty set of naturals.
Least(S) == CHOOSE n \in S : \A k \in S : n <= k

Failed == pc = "done" /\ result # ""

----------------------------------------------------------------------------
(* C1: if execute fails at statement index i, statements 0..i-1 were each  *)
(* applied exactly once, in index order, their mutations are still in the  *)
(* record (no rollback), and no statement with an index above i is ever    *)
(* applied.                                                                *)
C1_FailFastKeepsPrefix ==
    /\ applied = [n \in 1..Len(applied) |-> n - 1]
    /\ Len(applied) <= Len(mapping)
    /\ pc = "running" => Len(applied) = i /\ event = RunPrefix(mapping, event0, i)
    /\ Failed =>
          /\ Len(applied) = i + 1
          /\ \A n \in 0..(i - 1) : ErrAt(mapping, event0, n) = ""
          /\ event = Apply(mapping[i + 1], RunPrefix(mapping, event0, i)).ev

\* execute failed at index 1 after statement 0 changed the record, with a
\* statement left that was never applied.
C1_Witness ==
    /\ Failed
    /\ i = 1
    /\ Len(mapping) = 3
    /\ RunPrefix(mapping, event0, 1) # event0
    /\ event = RunPrefix(mapping, event0, 1)
    /\ applied = <<0, 1>>

----------------------------------------------------------------------------
(* C2: when execute fails it returns "failed to apply mapping {i}: {e}",   *)
(* i the 0-based top-level index of the first statement whose apply        *)
(* failed (also when the failure comes from a branch of a conditional) and *)
(* e that statement's own message; when all succeed it returns success.    *)
C2_ErrorNamesFirstFailure ==
    pc = "done" =>
        IF Failing(mapping, event0) = {} THEN result = ""
        ELSE LET f == Least(Failing(mapping, event0))
             IN  result = "failed to apply mapping " \o ToString(f) \o ": "
                            \o ErrAt(mapping, event0, f)

\* execute failed at index 1 inside the branch of a conditional.
C2_Witness ==
    /\ pc = "done"
    /\ Len(mapping) = 2
    /\ mapping[2].kind = "IfStatement"
    /\ branches = <<"false_statement">>
    /\ result = "failed to apply mapping 1: assignment must be from a value"

----------------------------------------------------------------------------
\* The paths of a Vec<LookupBuf> as a set.
PathsOf(paths) == {paths[n] : n \in 1..Len(paths)}

\* Some path of keep covers q.
Covered(keep, q) == \E p \in PathsOf(keep) : Covers(p, q)

\* Statement 0 of the given kind has just been applied to event0.
AfterFirst(kind) == Len(applied) = 1 /\ mapping[1].kind = kind

(* C3: after OnlyFields.apply every leaf path remaining in the record is   *)
(* covered by some keep-path, and every leaf path that existed before the  *)
(* call and is covered by some keep-path still exists with its value;      *)
(* keep-paths absent from the record cause no error.                       *)
C3_ProjectionKeepsCovered ==
    AfterFirst("OnlyFields") =>
        /\ result = ""
        /\ \A q \in LeafPaths(event) : Covered(mapping[1].paths, q)
        /\ \A q \in LeafPaths(event0) :
              Covered(mapping[1].paths, q) =>
                  Has(event, q) /\ Get(event, q) = Get(event0, q)

----------------------------------------------------------------------------
\* The statement execute's loop is at.
Current == mapping[i + 1]

\* This step applied the current statement and it returned Ok(()).
Succeeds == pc = "running" /\ pc' = "running" /\ i' = i + 1

\* The deep parameter of merge statement st is absent or evaluates to false.
IsShallow(st, m) ==
    st.deep = <<>> \/ Execute(st.deep[1], m) = QueryOk(Boolean(FALSE))

\* The deep parameter of merge statement st evaluates to true.
IsDeep(st, m) == st.deep # <<>> /\ Execute(st.deep[1], m) = QueryOk(Boolean(TRUE))

\* The map with the keys of D and S, S's value wherever S has the key.
ShallowMerged(D, S) ==
    [k \in (DOMAIN D) \cup (DOMAIN S) |-> IF k \in DOMAIN S THEN S[k] ELSE D[k]]

\* The recursive merge of S into D.
RECURSIVE DeepMerged(_, _)
DeepMerged(D, S) ==
    [k \in (DOMAIN D) \cup (DOMAIN S) |->
        IF k \notin DOMAIN S THEN D[k]
        ELSE IF k \in DOMAIN D /\ IsMap(D[k]) /\ IsMap(S[k])
             THEN Map(DeepMerged(D[k].m, S[k].m))
        ELSE S[k]]

----------------------------------------------------------------------------
----------------------------------------------------------------------------
\* This step ended execute with the given message for the current index.
FailsWith(msg) ==
    /\ pc' = "done"
    /\ i' = i
    /\ result' = "failed to apply mapping " \o ToString(i) \o ": " \o msg

\* Expression q evaluates, to something other than a concrete Boolean.
NonBoolean(q, m) ==
    LET r == Execute(q, m)
    IN  r.err = "" /\ ~(r.qv = "Value" /\ IsBoolean(r.v))

\* Neither operand of merge statement st fails the Map test.
BothMaps(st, m) ==
    LET r == Execute(st.q[1], m)
    IN  IsMap(Get(m, st.path)) /\ r.qv = "Value" /\ IsMap(r.v)

(* C6: Merge checks, in this order: the evaluation of `from`, `deep` (if   *)
(* present) being a concrete Boolean, the destination existing at `to`,    *)
(* both operands being maps; when several fail the error is that of the    *)
(* earliest check: the deep message before the not-found message before    *)
(* the non-map message.                                                    *)
C6_MergeErrorOrder ==
    [][AtStatement("MergeFn") =>
          LET st == Current
              from == Execute(st.q[1], event)
          IN  IF from.err # "" THEN FailsWith(from.err)
              ELSE IF st.deep # <<>> /\ Execute(st.deep[1], event).err # ""
                   THEN FailsWith(Execute(st.deep[1], event).err)
              ELSE IF st.deep # <<>> /\ NonBoolean(st.deep[1], event)
                   THEN FailsWith("deep parameter passed to merge is a non-boolean value")
              ELSE IF ~Has(event, st.path)
                   THEN FailsWith("parameter " \o PathToString(st.path)
                                    \o " passed to merge is not found")
              ELSE IF ~BothMaps(st, event)
                   THEN FailsWith("parameters passed to merge are non-map values")
              ELSE Succeeds]_vars

\* A merge with a non-boolean deep, a missing destination and a non-map
\* source reported the deep error.
C6_Witness ==
    /\ AfterFirst("MergeFn")
    /\ mapping[1].deep # <<>>
    /\ NonBoolean(mapping[1].deep[1], event0)
    /\ ~Has(event0, mapping[1].path)
    /\ mapping[1].q[1] = Literal(Bytes("z"))
    /\ result = "failed to apply mapping 0: deep parameter passed to merge is a non-boolean value"

\* A merge with a boolean deep, a missing destination and a non-map source
\* reported the destination as not found.
C6_WitnessNotFound ==
    /\ AfterFirst("MergeFn")
    /\ mapping[1].deep = <<Literal(Boolean(TRUE))>>
    /\ mapping[1].q[1] = Literal(Bytes("z"))
    /\ result = "failed to apply mapping 0: parameter a.a passed to merge is not found"

----------------------------------------------------------------------------
(* C7: a Conditional whose condition evaluates to anything other than a    *)
(* concrete Boolean fails with "query returned non-boolean value", applies *)
(* neither branch, and leaves the record as it was before the call.        *)
C7_NonBooleanConditionFails ==
    [][(AtStatement("IfStatement") /\ NonBoolean(Current.q[1], event)) =>
          /\ FailsWith("query returned non-boolean value")
          /\ event' = event
          /\ branches' = branches
          /\ sink' = sink]_vars

\* A Conditional on a non-boolean value failed; either branch would have
\* changed the record, which is as it was.
C7_Witness ==
    /\ AfterFirst("IfStatement")
    /\ NonBoolean(mapping[1].q[1], event0)
    /\ Apply(mapping[1].sub[1], event0).ev # event0
    /\ Apply(mapping[1].sub[2], event0).ev # event0
    /\ event = event0
    /\ branches = <<>>
    /\ result = "failed to apply mapping 0: query returned non-boolean value"

----------------------------------------------------------------------------
\* What this step must be when the Conditional applies branch n, called tag.
AppliesBranch(n, tag) ==
    LET b == Apply(Current.sub[n], event)
    IN  /\ event' = b.ev
        /\ branches' = branches \o <<tag>> \o b.br
        /\ sink' = sink \o b.out
        /\ IF b.err = "" THEN Succeeds ELSE FailsWith(b.err)

(* C8: a Conditional whose condition is Boolean true applies the           *)
(* true-branch exactly once and never the false-branch, one whose          *)
(* condition is Boolean false applies the false-branch exactly once and    *)
(* never the true-branch; its result is the applied branch's result.       *)
C8_ConditionSelectsBranch ==
    [][AtStatement("IfStatement") =>
          /\ Execute(Current.q[1], event) = QueryOk(Boolean(TRUE)) =>
                AppliesBranch(1, "true_statement")
          /\ Execute(Current.q[1], event) = QueryOk(Boolean(FALSE)) =>
                AppliesBranch(2, "false_statement")]_vars

\* A Conditional on true applied its true-branch, whose effect differs
\* from the false-branch's.
C8_Witness ==
    /\ AfterFirst("IfStatement")
    /\ Execute(mapping[1].q[1], event0) = QueryOk(Boolean(TRUE))
    /\ branches = <<"true_statement">>
    /\ event = Apply(mapping[1].sub[1], event0).ev
    /\ event # Apply(mapping[1].sub[2], event0).ev
    /\ event # event0

----------------------------------------------------------------------------
\* q is neither p, nor above p, nor below p.
Unrelated(q, p) == q # p /\ ~IsStrictPrefix(q, p) /\ ~IsStrictPrefix(p, q)

\* The proper prefixes of path p.
Ancestors(p) == {SubSeq(p, 1, n) : n \in 1..(Len(p) - 1)}

(* C9: a successful Assign(P, V) leaves V at P (replacing any prior value, *)
(* creating missing intermediate maps) and leaves the value at every path  *)
(* that is neither P, an ancestor of P nor a descendant of P unchanged;    *)
(* when the expression result is not a concrete Value, Assign fails with   *)
(* "assignment must be from a value" and writes nothing.                   *)
C9_AssignWritesOnlyItsPath ==
    [][AtStatement("Assignment") =>
          LET r == Execute(Current.q[1], event)
              P == Current.path
          IN  /\ (r.err = "" /\ r.qv = "Value") =>
                    /\ Succeeds
                    /\ Has(event', P) /\ Get(event', P) = r.v
                    /\ \A a \in Ancestors(P) : IsMap(Get(event', a))
                    /\ \A q \in PathSet(event) \cup PathSet(event') :
                          Unrelated(q, P) =>
                              /\ Has(event, q) /\ Has(event', q)
                              /\ Get(event', q) = Get(event, q)
              /\ (r.err = "" /\ r.qv # "Value") =>
                    /\ FailsWith("assignment must be from a value")
                    /\ event' = event]_vars

\* An assignment to a.b replaced the prior value there, next to a sibling
\* a.a that kept its value.
C9_Witness ==
    /\ AfterFirst("Assignment")
    /\ i = 1
    /\ mapping[1].path = <<"a", "b">>
    /\ Has(event0, <<"a", "b">>)
    /\ Has(event0, <<"a", "a">>)
    /\ Get(event, <<"a", "b">>) # Get(event0, <<"a", "b">>)
    /\ Get(event, <<"a", "a">>) = Get(event0, <<"a", "a">>)

----------------------------------------------------------------------------
(* C10: Delete always returns success and the record is the prior record   *)
(* with exactly the node at each listed path removed: an absent path       *)
(* changes nothing, siblings are preserved, and a parent map the removal   *)
(* emptied stays in the record as an empty map.                            *)
C10_DeleteIsLocal ==
    [][AtStatement("Deletion") =>
          /\ Succeeds
          /\ PathSet(event') = {q \in PathSet(event) : ~Covered(Current.paths, q)}
          /\ \A q \in PathSet(event') :
                /\ IsMap(Get(event', q)) <=> IsMap(Get(event, q))
                /\ ~IsMap(Get(event, q)) => Get(event', q) = Get(event, q)]_vars

\* A deletion of a.b, the only field of a, left a in the record as an
\* empty map.
C10_Witness ==
    /\ AfterFirst("Deletion")
    /\ mapping[1].paths = <<<<"a", "b">>>>
    /\ Has(event0, <<"a", "b">>)
    /\ event = Put(event0, "a", Map(NoFields))

----------------------------------------------------------------------------
\* The keys the current Deletion or OnlyFields statement st hands to remove.
RemovedKeys(st, m) ==
    IF st.kind = "Deletion" THEN PathsOf(st.paths)
    ELSE PathsOf(KeysToRemove(st.paths, m))

\* q is a key handed to remove, or lies below one.
UnderRemoved(st, m, q) == \E k \in RemovedKeys(st, m) : Covers(k, q)

\* The map at q in m has no field.
IsEmptyMap(m, q) == IsMap(Get(m, q)) /\ DOMAIN Get(m, q).m = {}

(* C11, as stated: every call of remove, in Delete and in OnlyFields       *)
(* alike, passes compact_ancestors = false: a node that is neither handed  *)
(* to remove nor below a node handed to remove stays in the record, also   *)
(* when the removals left it empty.                                        *)
C11_NeverCompacts ==
    [][(AtStatement("Deletion") \/ AtStatement("OnlyFields")) =>
          \A q \in PathSet(event) :
              ~UnderRemoved(Current, event, q) => Has(event', q)]_vars

(* C11, amended: Delete passes compact_ancestors = false and keeps every   *)
(* node that is neither handed to remove nor below such a node; OnlyFields *)
(* passes compact_ancestors = true: it keeps every such scalar with its    *)
(* value, removes such a map only when it held fields before, and leaves   *)
(* no map empty that held fields before.                                   *)
C11_OnlyProjectionCompacts ==
    [][/\ AtStatement("Deletion") =>
             \A q \in PathSet(event) :
                 ~UnderRemoved(Current, event, q) => Has(event', q)
       /\ AtStatement("OnlyFields") =>
             /\ \A q \in PathSet(event) :
                   ~UnderRemoved(Current, event, q) =>
                       IF IsMap(Get(event, q))
                       THEN Has(event', q) \/ ~IsEmptyMap(event, q)
                       ELSE Has(event', q) /\ Get(event', q) = Get(event, q)
             /\ \A q \in PathSet(event') :
                   IsEmptyMap(event', q) => IsEmptyMap(event, q)]_vars

\* OnlyFields kept a and dropped a.b, the only field of a: the emptied a,
\* though a keep-path, went with it.
C11_Witness ==
    /\ AfterFirst("OnlyFields")
    /\ i = 1
    /\ mapping[1].paths = <<<<"a">>>>
    /\ Has(event0, <<"a", "b">>)
    /\ DOMAIN Get(event0, <<"a">>).m = {"b"}
    /\ ~UnderRemoved(mapping[1], event0, <<"a">>)
    /\ ~Has(event, <<"a">>)

----------------------------------------------------------------------------
\* What execute returns when it runs stmts alone on ev.
AloneResult(stmts, ev) ==
    IF Failing(stmts, ev) = {} THEN ""
    ELSE LET f == Least(Failing(stmts, ev))
         IN  "failed to apply mapping " \o ToString(f) \o ": " \o ErrAt(stmts, ev, f)

\* The record execute leaves when it runs stmts alone on ev.
AloneRecord(stmts, ev) ==
    IF Failing(stmts, ev) = {} THEN RunPrefix(stmts, ev, Len(stmts))
    ELSE RunPrefix(stmts, ev, Least(Failing(stmts, ev)) + 1)

----------------------------------------------------------------------------
\* The keys that the destination map of merge statement st and its source
\* map both hold in record m.
SharedKeys(st, m) ==
    (DOMAIN Get(m, st.path).m) \cap (DOMAIN Execute(st.q[1], m).v.m)

\* Both maps hold a map under key k.
BothChildMaps(st, m, k) ==
    IsMap(Get(m, st.path).m[k]) /\ IsMap(Execute(st.q[1], m).v.m[k])

\* The source's value under key k, and the child maps under k merged
\* recursively.
SourceChild(st, m, k) == Execute(st.q[1], m).v.m[k]
ChildrenMerged(st, m, k) ==
    Map(DeepMerged(Get(m, st.path).m[k].m, Execute(st.q[1], m).v.m[k].m))

----------------------------------------------------------------------------
\* This step applied the current statement and it returned an Err.
Fails == pc = "running" /\ pc' = "done" /\ result' # ""

(* C14: every statement is atomic on failure: whatever its kind            *)
(* (Assignment, IfStatement with a failing branch, MergeFn, LogFn), if its *)
(* apply returns an error the record is as it was before that apply; so    *)
(* after execute fails at index i the record is exactly what statements    *)
(* 0..i-1 made of the initial record.                                      *)
C14_FailureLeavesRecord ==
    [][Fails =>
          /\ event' = event
          /\ i' = i
          /\ event' = RunPrefix(mapping, event0, i)
          /\ Current.kind \in {"Assignment", "IfStatement", "MergeFn", "LogFn"}]_vars

\* execute failed at index 1 in the false-branch of a conditional, after
\* statement 0 changed the record: the record is as statement 0 left it.
C14_Witness ==
    /\ Failed
    /\ i = 1
    /\ mapping[2].kind = "IfStatement"
    /\ branches = <<"false_statement">>
    /\ Apply(mapping[2].sub[1], RunPrefix(mapping, event0, 1)).ev
          # RunPrefix(mapping, event0, 1)
    /\ event # event0
    /\ event = RunPrefix(mapping, event0, 1)

----------------------------------------------------------------------------
\* What merging the source of merge statement st into its destination
\* makes of the destination, both read from record m.
MergedAt(st, m) ==
    IF IsDeep(st, m)
    THEN Map(DeepMerged(Get(m, st.path).m, Execute(st.q[1], m).v.m))
    ELSE Map(ShallowMerged(Get(m, st.path).m, Execute(st.q[1], m).v.m))

(* C15, as stated: a successful Merge changes only the subtree at `to`:    *)
(* every record path that is neither `to` nor a descendant of `to` has the *)
(* same value before and after, and the source value used is the one the   *)
(* record held before the merge began.                                     *)
C15_MergeChangesOnlyTo ==
    [][(AtStatement("MergeFn") /\ Succeeds) =>
          /\ Get(event', Current.path) = MergedAt(Current, event)
          /\ \A q \in PathSet(event) \cup PathSet(event') :
                ~Covers(Current.path, q) =>
                    /\ Has(event, q) /\ Has(event', q)
                    /\ Get(event', q) = Get(event, q)]_vars

(* C15, amended: a successful Merge changes only the subtree at `to`:      *)
(* every record path that is neither `to`, nor an ancestor of `to`, nor a  *)
(* descendant of `to` (including the source field when it lies outside the *)
(* destination) has the same value before and after, every ancestor of     *)
(* `to` is still a map, and the source value used is the one the record    *)
(* held before the merge began, also when the source path equals or lies   *)
(* inside the destination.                                                 *)
C15_MergeFrame ==
    [][(AtStatement("MergeFn") /\ Succeeds) =>
          /\ Get(event', Current.path) = MergedAt(Current, event)
          /\ \A a \in Ancestors(Current.path) : Has(event', a) /\ IsMap(Get(event', a))
          /\ \A q \in PathSet(event) \cup PathSet(event') :
                Unrelated(q, Current.path) =>
                    /\ Has(event, q) /\ Has(event', q)
                    /\ Get(event', q) = Get(event, q)]_vars

\* A merge into a of the map the record held at a.a succeeded: a gained
\* the fields of a.a as they were before the merge, a.a itself among them
\* replaced, and the field b beside a kept its value.
C15_Witness ==
    /\ AfterFirst("MergeFn")
    /\ i = 1
    /\ mapping[1].path = <<"a">>
    /\ mapping[1].q[1] = QueryPath(<<"a", "a">>)
    /\ Has(event0, <<"b">>)
    /\ Get(event, <<"b">>) = Get(event0, <<"b">>)
    /\ DOMAIN Get(event0, <<"a", "a">>).m # {}
    /\ Get(event, <<"a">>) # Get(event0, <<"a">>)
    /\ Get(event, <<"a">>) = MergedAt(mapping[1], event0)

====
